---------------------------- MODULE Spec2Model ----------------------------
(***************************************************************************)
(* Model of quality_checking/quality_check_functions.py.                   *)
(*                                                                         *)
(* The module is a script for a host application (ScanIP).  Each Python    *)
(* function is modelled as the sequence of host-API calls it issues (an    *)
(* operator named after the function); the host is modelled as a state     *)
(* machine that executes the pending calls one at a time.  `todo' is the   *)
(* rest of the running script, `log' the host calls made so far.           *)
(***************************************************************************)
EXTENDS Integers, Sequences, FiniteSets, TLC

VARIABLES
    todo,       \* the calls the running script has still to make
    log,        \* the calls made so far, in order
    fs,         \* the paths that exist on disk
    open,       \* whether the application has a current document
    masks,      \* the document's mask list, position 1 first
    vox,        \* mask name -> the set of voxels of the mask
    colour,     \* mask name -> <<r, g, b>>
    visible,    \* mask name -> BOOLEAN
    active,     \* the name of the active mask ("" when none)
    bgs,        \* the document's background images, newest last
    raw,        \* path of a .raw mask file on disk -> the voxels it holds
    pre         \* history: the mask list and voxels when bone_patching began

vars ==
    <<todo, log, fs, open, masks, vox, colour, visible, active, bgs, raw, pre>>

doc == <<open, masks, vox, colour, visible, active, bgs>>

----------------------------------------------------------------------------
(* Bounds of the model *)

NumVoxels == 1

MaxOverlap == 2

MaxExtra == 1

Voxels == 1..NumVoxels

----------------------------------------------------------------------------
(* Sequence helpers *)

Range(s) == {s[i] : i \in 1..Len(s)}

Remove(s, x) == SelectSeq(s, LAMBDA y : y # x)

InsertAt(s, k, x) ==
    LET p == IF k > Len(s) + 1 THEN Len(s) + 1 ELSE k
    IN  SubSeq(s, 1, p - 1) \o <<x>> \o SubSeq(s, p, Len(s))

----------------------------------------------------------------------------
(* Host-API calls, as the script issues them *)

ShowMessage(msg) == [op |-> "ShowMessage", msg |-> msg]

Activate(name) == [op |-> "Activate", mask |-> name]

SetColour(c) == [op |-> "SetColour", colour |-> c]

MoveMaskTo(order) == [op |-> "MoveMaskTo", index |-> order]

SetVisible(b) == [op |-> "SetVisible", flag |-> b]

ReplaceMaskUsingBooleanExpression(bop, operands, target) ==
    [op |-> "ReplaceMaskUsingBooleanExpression", bop |-> bop,
     operands |-> operands, mask |-> target]

ImportRawImage(path) == [op |-> "ImportRawImage", path |-> path]

ImportBackgroundFromRawImage(path) ==
    [op |-> "ImportBackgroundFromRawImage", path |-> path]

SetBackgroundName(old, new) ==
    [op |-> "SetBackgroundName", from |-> old, to |-> new]

CopyBackgroundToMask == [op |-> "CopyBackgroundToMask"]

RemoveBackground(name) == [op |-> "RemoveBackground", background |-> name]

SetMaskName(old, new) == [op |-> "SetMaskName", from |-> old, to |-> new]

Duplicate == [op |-> "Duplicate"]

ApplyErodeFilter(r) == [op |-> "ApplyErodeFilter", radius |-> r]

ApplyDilateFilter(r) == [op |-> "ApplyDilateFilter", radius |-> r]

ApplyCloseFilter(r) == [op |-> "ApplyCloseFilter", radius |-> r]

ApplyIslandRemovalFilter(n) == [op |-> "ApplyIslandRemovalFilter", size |-> n]

ApplyBinarisationFilter == [op |-> "ApplyBinarisationFilter"]

CreateMask(name, c) == [op |-> "CreateMask", mask |-> name, colour |-> c]

SaveAs(path) == [op |-> "SaveAs", path |-> path]

RawExport(name, path) == [op |-> "RawExport", mask |-> name, path |-> path]

Close == [op |-> "Close"]

makedirs(path) == [op |-> "makedirs", path |-> path]

Call(fn, args) == [op |-> "Call", fn |-> fn, args |-> args]

----------------------------------------------------------------------------
(* The script *)

message_box(msg) == <<ShowMessage(msg)>>

tissue_masks ==
    <<"wm", "gm", "eyes", "csf", "air", "blood", "cancellous", "cortical",
      "skin", "fat", "muscle">>

Tissues == Range(tissue_masks)

palette_msg ==
    "Color palette designation not recognized. Please indicate \"Aprinda\" or \"Sam\". Continuing with Sam's palette."

aprinda_palette ==
    [air |-> <<0, 128, 0>>, blood |-> <<0, 0, 255>>,
     cancellous |-> <<255, 0, 255>>, cortical |-> <<0, 255, 0>>,
     csf |-> <<128, 0, 255>>, eyes |-> <<0, 128, 255>>,
     fat |-> <<246, 240, 202>>, gm |-> <<255, 128, 0>>,
     muscle |-> <<255, 64, 64>>, skin |-> <<0, 255, 255>>,
     wm |-> <<255, 128, 192>>]

sam_palette ==
    [air |-> <<65, 65, 65>>, blood |-> <<200, 0, 0>>,
     cancellous |-> <<22, 167, 11>>, cortical |-> <<0, 255, 0>>,
     csf |-> <<107, 220, 220>>, eyes |-> <<194, 230, 230>>,
     fat |-> <<239, 217, 151>>, gm |-> <<176, 176, 176>>,
     muscle |-> <<255, 64, 64>>, skin |-> <<140, 120, 83>>,
     wm |-> <<207, 221, 220>>]

fallback_palette ==
    [air |-> <<65, 65, 65>>, blood |-> <<200, 0, 0>>,
     cancellous |-> <<22, 167, 11>>, cortical |-> <<0, 255, 0>>,
     csf |-> <<107, 220, 220>>, eyes |-> <<194, 230, 230>>,
     fat |-> <<239, 217, 151>>, gm |-> <<176, 176, 176>>,
     muscle |-> <<255, 64, 64>>, skin |-> <<140, 120, 83>>,
     wm |-> <<207, 221, 220>>]

\* color_dict with the unrecognized palette falling back to Aprinda's
color_dict_aprinda_fallback(color_palette) ==
    IF color_palette = "Sam" THEN sam_palette ELSE aprinda_palette

color_dict(color_palette) ==
    IF color_palette = "Aprinda" THEN aprinda_palette
    ELSE IF color_palette = "Sam" THEN sam_palette
    ELSE fallback_palette

palette_alert(color_palette) ==
    IF color_palette = "Aprinda" THEN <<>>
    ELSE IF color_palette = "Sam" THEN <<>>
    ELSE message_box(palette_msg)

order_dict ==
    [air |-> 7, blood |-> 6, cancellous |-> 5, cortical |-> 4, csf |-> 8,
     eyes |-> 9, fat |-> 2, gm |-> 10, muscle |-> 1, skin |-> 3, wm |-> 11]

RECURSIVE set_masks(_, _)
set_masks(color_palette, ms) ==
    IF ms = <<>> THEN <<>>
    ELSE LET name == Head(ms)
             color == color_dict(color_palette)[name]
             order == order_dict[name]
         IN  <<Activate(name), SetColour(color), MoveMaskTo(order),
               SetVisible(TRUE)>>
             \o set_masks(color_palette, Tail(ms))

colors_order_visibility(color_palette) ==
    palette_alert(color_palette) \o set_masks(color_palette, tissue_masks)

Minus(target, others) ==
    ReplaceMaskUsingBooleanExpression("MINUS", <<target>> \o others, target)

remove_overlap ==
    << Minus("gm", <<"wm">>),
       Minus("wm", <<"eyes", "csf">>),
       Minus("air", <<"wm", "gm", "csf", "blood", "skin">>),
       Minus("blood", <<"wm", "gm", "eyes", "skin">>),
       Minus("cortical", <<"wm", "gm", "air", "eyes", "blood">>),
       Minus("cancellous", <<"wm", "gm", "air", "eyes", "blood">>),
       Minus("cortical", <<"skin", "cancellous", "csf">>),
       Minus("cancellous", <<"skin", "csf">>),
       Minus("fat", <<"skin", "wm", "gm", "eyes", "air", "blood", "cortical",
                      "cancellous", "csf">>),
       Minus("muscle", <<"skin", "wm", "gm", "eyes", "air", "blood",
                         "cortical", "cancellous", "csf", "fat">>),
       Minus("eyes", <<"skin">>),
       Minus("csf", <<"eyes">>) >>

raw_import == "Raw import [W:0.00 L:0.00]"

import_mask(mask, location) ==
    << ImportBackgroundFromRawImage(location \o mask \o ".raw"),
       SetBackgroundName(raw_import, mask \o "_old"),
       CopyBackgroundToMask,
       RemoveBackground(mask \o "_old") >>

\* bone_patching writing the patched bone into the bone mask itself
bone_patching_into_bone ==
    << Activate("bone"),
       Duplicate,
       SetMaskName("Copy of bone", "unpatched_bone_regions"),
       Activate("unpatched_bone_regions"),
       ApplyErodeFilter(1),
       ApplyIslandRemovalFilter(15),
       ApplyDilateFilter(1),
       ReplaceMaskUsingBooleanExpression(
           "AND", <<"unpatched_bone_regions", "bone">>,
           "unpatched_bone_regions"),
       Activate("bone"),
       Duplicate,
       Activate("Copy of bone"),
       SetMaskName("Copy of bone", "patched_bone_regions_raw"),
       ReplaceMaskUsingBooleanExpression(
           "MINUS", <<"patched_bone_regions_raw", "unpatched_bone_regions">>,
           "patched_bone_regions_raw"),
       Activate("patched_bone_regions_raw"),
       ApplyIslandRemovalFilter(15),
       Duplicate,
       Activate("Copy of patched_bone_regions_raw"),
       SetMaskName("Copy of patched_bone_regions_raw",
                   "patched_bone_regions_corrected"),
       ApplyCloseFilter(2),
       ApplyDilateFilter(1),
       Minus("patched_bone_regions_corrected", <<"wm">>),
       Minus("patched_bone_regions_corrected", <<"gm">>),
       Minus("patched_bone_regions_corrected", <<"csf">>),
       Activate("patched_bone_regions_corrected"),
       Duplicate,
       Activate("Copy of patched_bone_regions_corrected"),
       SetMaskName("Copy of patched_bone_regions_corrected", "patched_bone"),
       ReplaceMaskUsingBooleanExpression(
           "OR", <<"patched_bone", "bone">>, "bone") >>

bone_patching ==
    << Activate("bone"),
       Duplicate,
       SetMaskName("Copy of bone", "unpatched_bone_regions"),
       Activate("unpatched_bone_regions"),
       ApplyErodeFilter(1),
       ApplyIslandRemovalFilter(15),
       ApplyDilateFilter(1),
       ReplaceMaskUsingBooleanExpression(
           "AND", <<"unpatched_bone_regions", "bone">>,
           "unpatched_bone_regions"),
       Activate("bone"),
       Duplicate,
       Activate("Copy of bone"),
       SetMaskName("Copy of bone", "patched_bone_regions_raw"),
       ReplaceMaskUsingBooleanExpression(
           "MINUS", <<"patched_bone_regions_raw", "unpatched_bone_regions">>,
           "patched_bone_regions_raw"),
       Activate("patched_bone_regions_raw"),
       ApplyIslandRemovalFilter(15),
       Duplicate,
       Activate("Copy of patched_bone_regions_raw"),
       SetMaskName("Copy of patched_bone_regions_raw",
                   "patched_bone_regions_corrected"),
       ApplyCloseFilter(2),
       ApplyDilateFilter(1),
       Minus("patched_bone_regions_corrected", <<"wm">>),
       Minus("patched_bone_regions_corrected", <<"gm">>),
       Minus("patched_bone_regions_corrected", <<"csf">>),
       Activate("patched_bone_regions_corrected"),
       Duplicate,
       Activate("Copy of patched_bone_regions_corrected"),
       SetMaskName("Copy of patched_bone_regions_corrected", "patched_bone"),
       ReplaceMaskUsingBooleanExpression(
           "OR", <<"patched_bone", "bone">>, "patched_bone") >>

(* generate_base_file *)

None == ""

participant_folder(participant_id, folder_location) ==
    folder_location \o "FS6.0_sub-" \o ToString(participant_id) \o "_ses01\\"

\* t1_names with the two names in the other order
t1_names_swapped(participant_id) ==
    << "T1.RAW",
       "FS6.0_sub-" \o ToString(participant_id) \o "_ses01_T1_rs.RAW" >>

t1_names(participant_id) ==
    << "FS6.0_sub-" \o ToString(participant_id) \o "_ses01_T1_rs.RAW",
       "T1.RAW" >>

\* find_t1 without the check that the file exists
find_t1_unchecked(folder, names, disk) ==
    IF names = <<>> THEN None ELSE folder \o names[Len(names)]

\* The loop over t1_names: the first name that exists on disk, or None
RECURSIVE find_t1(_, _, _)
find_t1(folder, names, disk) ==
    IF names = <<>> THEN None
    ELSE IF (folder \o Head(names)) \in disk THEN folder \o Head(names)
    ELSE find_t1(folder, Tail(names), disk)

RECURSIVE import_tissues(_, _)
import_tissues(mask_location, ms) ==
    IF ms = <<>> THEN <<>>
    ELSE LET mask_name == Head(ms)
             import_info == mask_location \o mask_name \o ".raw"
         IN  << ImportBackgroundFromRawImage(import_info),
                SetBackgroundName(raw_import, mask_name),
                CopyBackgroundToMask,
                RemoveBackground(mask_name) >>
             \o import_tissues(mask_location, Tail(ms))

\* optional_file looking in Binarized_masks\ before Binarized_masks\final\
optional_file_plain_first(folder, mask, disk) ==
    IF (folder \o "Binarized_masks\\" \o mask \o ".raw") \in disk
    THEN folder \o "Binarized_masks\\"
    ELSE IF (folder \o "Binarized_masks\\final\\" \o mask \o ".raw") \in disk
    THEN folder \o "Binarized_masks\\final\\"
    ELSE "NONE"

\* The folder an optional mask (uniform, bone) is imported from, or "NONE"
optional_file(folder, mask, disk) ==
    IF (folder \o "Binarized_masks\\final\\" \o mask \o ".raw") \in disk
    THEN folder \o "Binarized_masks\\final\\"
    ELSE IF (folder \o "Binarized_masks\\" \o mask \o ".raw") \in disk
    THEN folder \o "Binarized_masks\\"
    ELSE "NONE"

\* The indicators import_uniform and import_bone
optional_import(folder, mask, disk) ==
    IF (folder \o "Binarized_masks\\final\\" \o mask \o ".raw") \in disk
    THEN TRUE
    ELSE IF (folder \o "Binarized_masks\\" \o mask \o ".raw") \in disk
    THEN TRUE
    ELSE FALSE

reorganize_masks ==
    << CreateMask("---", <<0, 255, 63>>),
       Activate("patched_bone_regions_corrected"), MoveMaskTo(17),
       Activate("patched_bone_regions_raw"), MoveMaskTo(16),
       Activate("unpatched_bone_regions"), MoveMaskTo(15),
       CreateMask("----", <<0, 159, 255>>),
       Activate("patched_bone"), MoveMaskTo(18),
       Activate("bone"), MoveMaskTo(17),
       Activate("uniform"), MoveMaskTo(16),
       Activate("---"), MoveMaskTo(12),
       Activate("----"), MoveMaskTo(16) >>

uniform_stage(import_uniform, uniform_file) ==
    IF import_uniform
    THEN << Call("import_mask", [mask |-> "uniform", location |-> uniform_file]),
            SetMaskName("uniform_old", "uniform") >>
    ELSE <<>>

bone_stage(import_bone, bone_file, import_uniform) ==
    IF import_bone
    THEN << Call("import_mask", [mask |-> "bone", location |-> bone_file]),
            SetMaskName("bone_old", "bone"),
            Call("bone_patching", <<>>) >>
         \o (IF import_uniform THEN reorganize_masks ELSE <<>>)
    ELSE <<>>

\* final_message with the two one-mask messages exchanged
final_message_exchanged(participant_id, import_uniform, import_bone) ==
    IF ~import_uniform /\ ~import_bone
    THEN "Could not find files for either uniform or bone masks."
    ELSE IF ~import_uniform /\ import_bone
    THEN "Uniform imported but bone could not be located."
    ELSE IF ~import_bone /\ import_uniform
    THEN "Bone imported but uniform could not be located."
    ELSE ToString(participant_id)
         \o "_base.sip successfully generated. Uniform and pre-patched bone included."

final_message(participant_id, import_uniform, import_bone) ==
    IF ~import_uniform /\ ~import_bone
    THEN "Could not find files for either uniform or bone masks."
    ELSE IF ~import_uniform /\ import_bone
    THEN "Bone imported but uniform could not be located."
    ELSE IF ~import_bone /\ import_uniform
    THEN "Uniform imported but bone could not be located."
    ELSE ToString(participant_id)
         \o "_base.sip successfully generated. Uniform and pre-patched bone included."

\* qc_save naming the file of a finished quality check
qc_save_as_qc1(participant_id, folder_location) ==
    participant_folder(participant_id, folder_location)
    \o "qualityCheck\\sipFiles\\" \o ToString(participant_id) \o "_QC1.sip"

qc_save(participant_id, folder_location) ==
    participant_folder(participant_id, folder_location)
    \o "qualityCheck\\sipFiles\\" \o ToString(participant_id) \o "_base.sip"

\* The existence checks of the body read the disk as it is when the function
\* is entered: no call the function makes before them writes to the disk.
generate_base_file(participant_id, folder_location, disk) ==
    LET folder == participant_folder(participant_id, folder_location)
        t1 == find_t1(folder, t1_names(participant_id), disk)
        mask_location == folder \o "Binarized_masks\\idv_mask\\"
        import_uniform == optional_import(folder, "uniform", disk)
        uniform_file == optional_file(folder, "uniform", disk)
        import_bone == optional_import(folder, "bone", disk)
        bone_file == optional_file(folder, "bone", disk)
    IN  IF t1 = None
        THEN message_box("No RAW T1 scan found.")
        ELSE << ImportRawImage(t1),
                SetBackgroundName(raw_import,
                                  ToString(participant_id) \o "_T1") >>
             \o import_tissues(mask_location, tissue_masks)
             \o << Call("colors_order_visibility", [color_palette |-> "Sam"]) >>
             \o uniform_stage(import_uniform, uniform_file)
             \o bone_stage(import_bone, bone_file, import_uniform)
             \o << SaveAs(qc_save(participant_id, folder_location)) >>
             \o message_box(final_message(participant_id, import_uniform,
                                          import_bone))

(* finalize_sip_file *)

qc_folder(participant_id, folder_location) ==
    folder_location \o "FS6.0_sub-" \o ToString(participant_id)
    \o "_ses01\\qualityCheck\\"

export_location(participant_id, folder_location) ==
    qc_folder(participant_id, folder_location) \o "tissueMasks\\"

\* make_export_location that never makes the directory
make_export_location_never(exportLocation, disk) == <<>>

make_export_location(exportLocation, disk) ==
    IF exportLocation \notin disk THEN <<makedirs(exportLocation)>> ELSE <<>>

RECURSIVE export_masks(_, _)
export_masks(exportLocation, ms) ==
    IF ms = <<>> THEN <<>>
    ELSE LET name == Head(ms)
             exportingMask == exportLocation \o name \o ".raw"
         IN  << Activate(name), ApplyBinarisationFilter,
                RawExport(name, exportingMask) >>
             \o export_masks(exportLocation, Tail(ms))

qc_sip(participant_id, folder_location, check_stage) ==
    qc_folder(participant_id, folder_location) \o "sipFiles\\"
    \o ToString(participant_id) \o "_QC" \o ToString(check_stage) \o ".sip"

finalize_sip_file(participant_id, folder_location, check_stage, disk) ==
    LET exportLocation == export_location(participant_id, folder_location)
    IN  make_export_location(exportLocation, disk)
        \o << Call("colors_order_visibility", [color_palette |-> "Aprinda"]),
              Call("remove_overlap", <<>>) >>
        \o export_masks(exportLocation, tissue_masks)
        \o << SaveAs(qc_sip(participant_id, folder_location, check_stage)) >>

(* stop_start_visual_checks *)

\* stop_start_visual_checks closing the document before saving it
stop_start_close_first(current_participant, next_participant, folder_location) ==
    << Close,
       SaveAs(qc_folder(current_participant, folder_location)
              \o "sipFiles\\" \o ToString(current_participant)
              \o "_base.sip"),
       Call("generate_base_file",
            [participant_id |-> next_participant,
             folder_location |-> folder_location]) >>

stop_start_visual_checks(current_participant, next_participant, folder_location) ==
    << SaveAs(qc_folder(current_participant, folder_location)
              \o "sipFiles\\" \o ToString(current_participant)
              \o "_base.sip"),
       Close,
       Call("generate_base_file",
            [participant_id |-> next_participant,
             folder_location |-> folder_location]) >>

----------------------------------------------------------------------------
(* The host: one action per API call.  A call whose object does not exist  *)
(* (a mask or background looked up by name, a file to import) is not       *)
(* enabled: the script stops there.                                        *)

Done(call) ==
    /\ todo' = Tail(todo)
    /\ log' = Append(log, call)
    /\ pre' = pre

Pending(op) == todo # <<>> /\ Head(todo).op = op

\* f with x mapped to v (x is added to the domain when new)
Ext(f, x, v) == [y \in DOMAIN f \cup {x} |-> IF y = x THEN v ELSE f[y]]

\* f with the key old renamed to new
Rename(f, old, new) ==
    [y \in (DOMAIN f \ {old}) \cup {new} |-> IF y = new THEN f[old] ELSE f[y]]

Empty == [y \in {} |-> {}]

default_colour == <<0, 0, 0>>

RECURSIVE EvalExpr(_, _, _)
EvalExpr(bop, operands, v) ==
    IF Len(operands) = 1 THEN v[operands[1]]
    ELSE LET n == Len(operands)
             l == EvalExpr(bop, SubSeq(operands, 1, n - 1), v)
             r == v[operands[n]]
         IN  CASE bop = "MINUS" -> l \ r
               [] bop = "AND" -> l \cap r
               [] bop = "OR" -> l \cup r

HostShowMessage ==
    /\ Pending("ShowMessage")
    /\ Done(Head(todo))
    /\ UNCHANGED <<fs, doc, raw>>

HostActivate ==
    /\ Pending("Activate")
    /\ open /\ Head(todo).mask \in Range(masks)
    /\ active' = Head(todo).mask
    /\ Done(Head(todo))
    /\ UNCHANGED <<fs, open, masks, vox, colour, visible, bgs, raw>>

HostSetColour ==
    /\ Pending("SetColour")
    /\ open /\ active \in Range(masks)
    /\ colour' = [colour EXCEPT ![active] = Head(todo).colour]
    /\ Done(Head(todo))
    /\ UNCHANGED <<fs, open, masks, vox, visible, active, bgs, raw>>

\* The mask leaves the list and is put back at the given position (1 first)
HostMoveMaskTo ==
    /\ Pending("MoveMaskTo")
    /\ open /\ active \in Range(masks)
    /\ masks' = InsertAt(Remove(masks, active), Head(todo).index, active)
    /\ Done(Head(todo))
    /\ UNCHANGED <<fs, open, vox, colour, visible, active, bgs, raw>>

HostSetVisible ==
    /\ Pending("SetVisible")
    /\ open /\ active \in Range(masks)
    /\ visible' = [visible EXCEPT ![active] = Head(todo).flag]
    /\ Done(Head(todo))
    /\ UNCHANGED <<fs, open, masks, vox, colour, active, bgs, raw>>

HostReplaceMask ==
    /\ Pending("ReplaceMaskUsingBooleanExpression")
    /\ open /\ Head(todo).mask \in Range(masks)
    /\ Range(Head(todo).operands) \subseteq Range(masks)
    /\ vox' = [vox EXCEPT ![Head(todo).mask] =
                  EvalExpr(Head(todo).bop, Head(todo).operands, vox)]
    /\ Done(Head(todo))
    /\ UNCHANGED <<fs, open, masks, colour, visible, active, bgs, raw>>

\* A new document, holding the imported image as its only background
HostImportRawImage ==
    /\ Pending("ImportRawImage")
    /\ Head(todo).path \in fs
    /\ open' = TRUE
    /\ masks' = <<>>
    /\ vox' = Empty /\ colour' = Empty /\ visible' = Empty
    /\ active' = ""
    /\ bgs' = << [name |-> raw_import, vox |-> {}] >>
    /\ Done(Head(todo))
    /\ UNCHANGED <<fs, raw>>

HostImportBackground ==
    /\ Pending("ImportBackgroundFromRawImage")
    /\ open /\ Head(todo).path \in DOMAIN raw
    /\ bgs' = Append(bgs, [name |-> raw_import, vox |-> raw[Head(todo).path]])
    /\ Done(Head(todo))
    /\ UNCHANGED <<fs, open, masks, vox, colour, visible, active, raw>>

HostSetBackgroundName ==
    /\ Pending("SetBackgroundName")
    /\ open
    /\ \E i \in 1..Len(bgs) :
         /\ bgs[i].name = Head(todo).from
         /\ \A j \in 1..Len(bgs) : bgs[j].name = Head(todo).from => j = i
         /\ bgs' = [bgs EXCEPT ![i].name = Head(todo).to]
    /\ Done(Head(todo))
    /\ UNCHANGED <<fs, open, masks, vox, colour, visible, active, raw>>

\* The newest background becomes a mask of its name, last in the list
HostCopyBackgroundToMask ==
    /\ Pending("CopyBackgroundToMask")
    /\ open /\ bgs # <<>>
    /\ LET bg == bgs[Len(bgs)]
       IN  /\ bg.name \notin Range(masks)
           /\ masks' = Append(masks, bg.name)
           /\ vox' = Ext(vox, bg.name, bg.vox)
           /\ colour' = Ext(colour, bg.name, default_colour)
           /\ visible' = Ext(visible, bg.name, TRUE)
    /\ Done(Head(todo))
    /\ UNCHANGED <<fs, open, active, bgs, raw>>

HostRemoveBackground ==
    /\ Pending("RemoveBackground")
    /\ open
    /\ \E i \in 1..Len(bgs) : bgs[i].name = Head(todo).background
    /\ bgs' = SelectSeq(bgs, LAMBDA b : b.name # Head(todo).background)
    /\ Done(Head(todo))
    /\ UNCHANGED <<fs, open, masks, vox, colour, visible, active, raw>>

HostSetMaskName ==
    /\ Pending("SetMaskName")
    /\ open /\ Head(todo).from \in Range(masks)
    /\ Head(todo).to \notin Range(masks)
    /\ LET old == Head(todo).from
           new == Head(todo).to
       IN  /\ masks' = [i \in 1..Len(masks) |->
                          IF masks[i] = old THEN new ELSE masks[i]]
           /\ vox' = Rename(vox, old, new)
           /\ colour' = Rename(colour, old, new)
           /\ visible' = Rename(visible, old, new)
           /\ active' = IF active = old THEN new ELSE active
    /\ Done(Head(todo))
    /\ UNCHANGED <<fs, open, bgs, raw>>

\* A copy of the active mask, named "Copy of <name>", last in the list
HostDuplicate ==
    /\ Pending("Duplicate")
    /\ open /\ active \in Range(masks)
    /\ LET copy == "Copy of " \o active
       IN  /\ copy \notin Range(masks)
           /\ masks' = Append(masks, copy)
           /\ vox' = Ext(vox, copy, vox[active])
           /\ colour' = Ext(colour, copy, colour[active])
           /\ visible' = Ext(visible, copy, visible[active])
    /\ Done(Head(todo))
    /\ UNCHANGED <<fs, open, active, bgs, raw>>

MorphologicalFilters ==
    {"ApplyErodeFilter", "ApplyDilateFilter", "ApplyCloseFilter",
     "ApplyIslandRemovalFilter"}

\* The host's filters are not part of the module: a filter may leave the
\* active mask with any set of voxels.
HostApplyFilter ==
    /\ todo # <<>> /\ Head(todo).op \in MorphologicalFilters
    /\ open /\ active \in Range(masks)
    /\ \E result \in SUBSET Voxels : vox' = [vox EXCEPT ![active] = result]
    /\ Done(Head(todo))
    /\ UNCHANGED <<fs, open, masks, colour, visible, active, bgs, raw>>

\* A mask is a set of voxels: binarising it keeps the set
HostApplyBinarisationFilter ==
    /\ Pending("ApplyBinarisationFilter")
    /\ open /\ active \in Range(masks)
    /\ Done(Head(todo))
    /\ UNCHANGED <<fs, doc, raw>>

HostCreateMask ==
    /\ Pending("CreateMask")
    /\ open /\ Head(todo).mask \notin Range(masks)
    /\ masks' = Append(masks, Head(todo).mask)
    /\ vox' = Ext(vox, Head(todo).mask, {})
    /\ colour' = Ext(colour, Head(todo).mask, Head(todo).colour)
    /\ visible' = Ext(visible, Head(todo).mask, TRUE)
    /\ Done(Head(todo))
    /\ UNCHANGED <<fs, open, active, bgs, raw>>

HostSaveAs ==
    /\ Pending("SaveAs")
    /\ open
    /\ fs' = fs \cup {Head(todo).path}
    /\ Done(Head(todo))
    /\ UNCHANGED <<doc, raw>>

HostRawExport ==
    /\ Pending("RawExport")
    /\ open /\ Head(todo).mask \in Range(masks)
    /\ fs' = fs \cup {Head(todo).path}
    /\ raw' = Ext(raw, Head(todo).path, vox[Head(todo).mask])
    /\ Done(Head(todo))
    /\ UNCHANGED doc

HostClose ==
    /\ Pending("Close")
    /\ open
    /\ open' = FALSE
    /\ masks' = <<>>
    /\ vox' = Empty /\ colour' = Empty /\ visible' = Empty
    /\ active' = ""
    /\ bgs' = <<>>
    /\ Done(Head(todo))
    /\ UNCHANGED <<fs, raw>>

OsMakedirs ==
    /\ Pending("makedirs")
    /\ fs' = fs \cup {Head(todo).path}
    /\ Done(Head(todo))
    /\ UNCHANGED <<doc, raw>>

----------------------------------------------------------------------------
(* Entering a function of the module: its body replaces the call *)

Calling(fn) == Pending("Call") /\ Head(todo).fn = fn

Enter(body) ==
    /\ todo' = body \o Tail(todo)
    /\ log' = Append(log, Head(todo))
    /\ pre' = IF Head(todo).fn = "bone_patching"
              THEN [masks |-> masks, vox |-> vox]
              ELSE pre
    /\ UNCHANGED <<fs, doc, raw>>

CallColorsOrderVisibility ==
    /\ Calling("colors_order_visibility")
    /\ Enter(colors_order_visibility(Head(todo).args.color_palette))

CallRemoveOverlap ==
    /\ Calling("remove_overlap")
    /\ Enter(remove_overlap)

CallImportMask ==
    /\ Calling("import_mask")
    /\ Enter(import_mask(Head(todo).args.mask, Head(todo).args.location))

CallBonePatching ==
    /\ Calling("bone_patching")
    /\ Enter(bone_patching)

CallGenerateBaseFile ==
    /\ Calling("generate_base_file")
    /\ Enter(generate_base_file(Head(todo).args.participant_id,
                                Head(todo).args.folder_location, fs))

CallFinalizeSipFile ==
    /\ Calling("finalize_sip_file")
    /\ Enter(finalize_sip_file(Head(todo).args.participant_id,
                               Head(todo).args.folder_location,
                               Head(todo).args.check_stage, fs))

CallStopStartVisualChecks ==
    /\ Calling("stop_start_visual_checks")
    /\ Enter(stop_start_visual_checks(Head(todo).args.current_participant,
                                      Head(todo).args.next_participant,
                                      Head(todo).args.folder_location))

----------------------------------------------------------------------------
(* Initial states: a document, a disk and one call of the module *)

Palettes == {"Aprinda", "Sam", "sam"}

Participants == {999999, 103485}

\* The participant whose scans may be on disk
Scanned == CHOOSE p \in Participants : p > 500000

Folder == "D:\\scans\\"

CheckStages == {1, 2}

Extras == <<"bone", "uniform", "notes">>

ExtraMasks(n) == SubSeq(Extras, 1, n)

\* A document holding the mask list ms with the voxels v
Document(ms, v) ==
    /\ open = TRUE
    /\ masks = ms
    /\ vox = [m \in Range(ms) |-> IF m \in DOMAIN v THEN v[m] ELSE {}]
    /\ colour = [m \in Range(ms) |-> default_colour]
    /\ visible = [m \in Range(ms) |-> FALSE]
    /\ active = ""
    /\ bgs = <<>>

NoDocument ==
    /\ open = FALSE
    /\ masks = <<>>
    /\ vox = Empty /\ colour = Empty /\ visible = Empty
    /\ active = ""
    /\ bgs = <<>>

\* Tissue masks of which at most MaxOverlap are not empty
Overlaps ==
    UNION {[S -> (SUBSET Voxels) \ {{}}] :
             S \in {T \in SUBSET Tissues : Cardinality(T) <= MaxOverlap}}

\* The tissue mask files of a participant, which are always on disk
TissueFiles(p) ==
    {participant_folder(p, Folder) \o "Binarized_masks\\idv_mask\\" \o m
       \o ".raw" : m \in Tissues}

\* The files generate_base_file looks for
OptionalFiles(p) ==
    {participant_folder(p, Folder) \o n : n \in Range(t1_names(p))}
    \cup {participant_folder(p, Folder) \o d \o m \o ".raw" :
            d \in {"Binarized_masks\\final\\", "Binarized_masks\\"},
            m \in {"uniform", "bone"}}

\* A disk with the participant's tissue files and the optional files X, every
\* mask file holding the voxels c
Disk(p, X, c) ==
    /\ fs = TissueFiles(p) \cup X
    /\ raw = [f \in {g \in TissueFiles(p) \cup X : g \notin
                       {participant_folder(p, Folder) \o n :
                          n \in Range(t1_names(p))}} |-> c]

NoDisk ==
    /\ fs = {}
    /\ raw = Empty

InitOverlap ==
    \E g \in Overlaps :
        /\ Document(tissue_masks, g)
        /\ NoDisk
        /\ todo = <<Call("remove_overlap", <<>>)>>
        /\ log = <<>>

\* The mask list: the tissue masks and up to MaxExtra others, one mask moved
InitOrder ==
    \E n \in 0..MaxExtra, p \in Palettes :
      LET base == tissue_masks \o ExtraMasks(n)
      IN  \E m \in Tissues, k \in 1..Len(base) :
            /\ Document(InsertAt(Remove(base, m), k, m), <<>>)
            /\ NoDisk
            /\ todo = <<Call("colors_order_visibility",
                             [color_palette |-> p])>>
            /\ log = <<>>

InitGenerate ==
    \E p \in Participants, X \in SUBSET OptionalFiles(Scanned),
       c \in SUBSET Voxels :
        /\ NoDocument
        /\ Disk(Scanned, X, c)
        /\ todo = <<Call("generate_base_file",
                         [participant_id |-> p, folder_location |-> Folder])>>
        /\ log = <<>>

\* No tissue mask holds a voxel, or every tissue mask holds every voxel
FinalizeVoxels == {<<>>, [m \in Tissues |-> Voxels]}

InitFinalize ==
    \E p \in Participants, stage \in CheckStages, n \in 0..MaxExtra,
       made \in BOOLEAN, g \in FinalizeVoxels :
        /\ Document(tissue_masks \o ExtraMasks(n), g)
        /\ fs = IF made THEN {export_location(p, Folder)} ELSE {}
        /\ raw = Empty
        /\ todo = <<Call("finalize_sip_file",
                         [participant_id |-> p, folder_location |-> Folder,
                          check_stage |-> stage])>>
        /\ log = <<>>

InitStopStart ==
    \E cur \in Participants, next \in Participants,
       X \in SUBSET OptionalFiles(Scanned) :
        /\ Document(tissue_masks, <<>>)
        /\ Disk(Scanned, X, Voxels)
        /\ todo = <<Call("stop_start_visual_checks",
                         [current_participant |-> cur,
                          next_participant |-> next,
                          folder_location |-> Folder])>>
        /\ log = <<>>

\* The masks bone_patching reads
PatchingInputs == {"bone", "wm", "gm", "csf"}

\* A document with the tissue masks and bone; the masks bone_patching reads
\* hold any voxels
InitBonePatching ==
    \E g \in [PatchingInputs -> SUBSET Voxels] :
        /\ Document(tissue_masks \o <<"bone">>, g)
        /\ NoDisk
        /\ todo = <<Call("bone_patching", <<>>)>>
        /\ log = <<>>

NoSnapshot == [masks |-> <<>>, vox |-> Empty]

Init ==
    /\ pre = NoSnapshot
    /\ \/ InitOverlap
       \/ InitOrder
       \/ InitGenerate
       \/ InitFinalize
       \/ InitStopStart
       \/ InitBonePatching

Next ==
    \/ CallColorsOrderVisibility
    \/ CallRemoveOverlap
    \/ CallImportMask
    \/ CallBonePatching
    \/ CallGenerateBaseFile
    \/ CallFinalizeSipFile
    \/ CallStopStartVisualChecks
    \/ HostShowMessage
    \/ HostActivate
    \/ HostSetColour
    \/ HostMoveMaskTo
    \/ HostSetVisible
    \/ HostReplaceMask
    \/ HostImportRawImage
    \/ HostImportBackground
    \/ HostSetBackgroundName
    \/ HostCopyBackgroundToMask
    \/ HostRemoveBackground
    \/ HostSetMaskName
    \/ HostDuplicate
    \/ HostApplyFilter
    \/ HostApplyBinarisationFilter
    \/ HostCreateMask
    \/ HostSaveAs
    \/ HostRawExport
    \/ HostClose
    \/ OsMakedirs

Spec == Init /\ [][Next]_vars

----------------------------------------------------------------------------
(* Vocabulary of the properties *)

Finished == todo = <<>>

\* The run is a call of fn and has returned
Ran(fn) == Finished /\ log # <<>> /\ log[1].op = "Call" /\ log[1].fn = fn

IsCall(i, fn) == log[i].op = "Call" /\ log[i].fn = fn

After(g) == SubSeq(log, g + 1, Len(log))

At(op) == {i \in 1..Len(log) : log[i].op = op}

\* Every pending call can be made: no run stops before its script ends
Progress == todo # <<>> => ENABLED Next

----------------------------------------------------------------------------
(* C1: after remove_overlap has run its 12 boolean replacements, every two *)
(* distinct tissue masks are disjoint.                                      *)
C1_TissuesDisjoint ==
    Ran("remove_overlap") =>
        \A a \in Tissues, b \in Tissues : a # b => vox[a] \cap vox[b] = {}

(* C2: after colors_order_visibility returns, each tissue mask sits at the *)
(* list position order_dict gives it, whatever the initial order and        *)
(* whether or not the document holds other masks.                           *)
C2_TissuesAtOrder ==
    Ran("colors_order_visibility") =>
        /\ masks[1] = "muscle" /\ masks[2] = "fat" /\ masks[3] = "skin"
        /\ masks[4] = "cortical" /\ masks[5] = "cancellous"
        /\ masks[6] = "blood" /\ masks[7] = "air" /\ masks[8] = "csf"
        /\ masks[9] = "eyes" /\ masks[10] = "gm" /\ masks[11] = "wm"

----------------------------------------------------------------------------
(* Paths and names as the properties state them *)

ParticipantFolder(p, f) == f \o "FS6.0_sub-" \o ToString(p) \o "_ses01\\"

T1First(p, f) ==
    ParticipantFolder(p, f) \o "FS6.0_sub-" \o ToString(p) \o "_ses01_T1_rs.RAW"

T1Second(p, f) == ParticipantFolder(p, f) \o "T1.RAW"

NoT1Message == [op |-> "ShowMessage", msg |-> "No RAW T1 scan found."]

\* Position g of the log is a call of generate_base_file
Generates(g) == IsCall(g, "generate_base_file")

Pid(g) == log[g].args.participant_id

Loc(g) == log[g].args.folder_location

T1Missing(g) == T1First(Pid(g), Loc(g)) \notin fs /\ T1Second(Pid(g), Loc(g)) \notin fs

(* C3: when generate_base_file finds neither T1 name on disk, the only     *)
(* host call it makes is one message box "No RAW T1 scan found.": what it  *)
(* has done and what it has still to do are together that one call.        *)
C3_NoT1OnlyMessage ==
    \A g \in 1..Len(log) :
        Generates(g) /\ T1Missing(g) => After(g) \o todo = <<NoT1Message>>

C3_Witness ==
    /\ Finished
    /\ \E g \in 1..Len(log) :
         Generates(g) /\ T1Missing(g) /\ After(g) = <<NoT1Message>>
    /\ ~open

(* C4: colors_order_visibility with an unrecognized palette shows exactly  *)
(* one message box and leaves every tissue mask with Sam's colour, its     *)
(* order_dict target and visible; with "Aprinda" or "Sam" it shows none;   *)
(* in all three cases each tissue mask is activated once and then has      *)
(* SetColour, MoveMaskTo and SetVisible(True) applied, once each.          *)
C4_Palette == log[1].args.color_palette

C4_Colours ==
    IF C4_Palette = "Aprinda"
    THEN [air |-> <<0, 128, 0>>, blood |-> <<0, 0, 255>>,
          cancellous |-> <<255, 0, 255>>, cortical |-> <<0, 255, 0>>,
          csf |-> <<128, 0, 255>>, eyes |-> <<0, 128, 255>>,
          fat |-> <<246, 240, 202>>, gm |-> <<255, 128, 0>>,
          muscle |-> <<255, 64, 64>>, skin |-> <<0, 255, 255>>,
          wm |-> <<255, 128, 192>>]
    ELSE color_dict("Sam")

C4_Targets ==
    [muscle |-> 1, fat |-> 2, skin |-> 3, cortical |-> 4, cancellous |-> 5,
     blood |-> 6, air |-> 7, csf |-> 8, eyes |-> 9, gm |-> 10, wm |-> 11]

C4_PaletteFallback ==
    Ran("colors_order_visibility") =>
        /\ Cardinality(At("ShowMessage")) =
               IF C4_Palette \in {"Aprinda", "Sam"} THEN 0 ELSE 1
        /\ \A m \in Tissues :
             /\ colour[m] = C4_Colours[m]
             /\ visible[m] = TRUE
             /\ \E i \in 1..Len(log) - 3 :
                  /\ log[i] = [op |-> "Activate", mask |-> m]
                  /\ log[i + 1] = [op |-> "SetColour", colour |-> C4_Colours[m]]
                  /\ log[i + 2] = [op |-> "MoveMaskTo", index |-> C4_Targets[m]]
                  /\ log[i + 3] = [op |-> "SetVisible", flag |-> TRUE]
        /\ Cardinality(At("Activate")) = Cardinality(Tissues)
        /\ Cardinality(At("SetColour")) = Cardinality(Tissues)
        /\ Cardinality(At("MoveMaskTo")) = Cardinality(Tissues)
        /\ Cardinality(At("SetVisible")) = Cardinality(Tissues)

C4_Witness ==
    /\ Ran("colors_order_visibility")
    /\ C4_Palette \notin {"Aprinda", "Sam"}
    /\ Cardinality(At("ShowMessage")) = 1
    /\ colour["wm"] = <<207, 221, 220>>

----------------------------------------------------------------------------
(* finalize_sip_file *)

QcFolder(p, f) == f \o "FS6.0_sub-" \o ToString(p) \o "_ses01\\qualityCheck\\"

ExportDir(p, f) == QcFolder(p, f) \o "tissueMasks\\"

Finalizing == log # <<>> /\ IsCall(1, "finalize_sip_file")

Before(i, op) == {j \in 1..(i - 1) : log[j].op = op}

PaletteCalls == {"SetColour", "MoveMaskTo", "SetVisible"}

(* C5: finalize_sip_file works in the documented order:                    *)
(* colors_order_visibility("Aprinda") completes before remove_overlap      *)
(* starts, remove_overlap completes before any mask is binarised or        *)
(* exported, each tissue mask is exported once, to <exportLocation><name>  *)
(* .raw, right after being activated and binarised, the one SaveAs (to     *)
(* <id>_QC<check_stage>.sip) comes after the 11 exports, and the export    *)
(* directory exists before the first export.                               *)
C5_FinalizeOrder ==
    Finalizing =>
      LET p == log[1].args.participant_id
          f == log[1].args.folder_location
          stage == log[1].args.check_stage
      IN
        /\ \A i \in 1..Len(log) :
             IsCall(i, "remove_overlap") =>
               /\ \E c \in 1..(i - 1) :
                    /\ IsCall(c, "colors_order_visibility")
                    /\ log[c].args.color_palette = "Aprinda"
               /\ Cardinality(Before(i, "SetVisible")) = Cardinality(Tissues)
               /\ \A j \in 1..Len(log) : log[j].op \in PaletteCalls => j < i
        /\ \A i \in At("ApplyBinarisationFilter") \cup At("RawExport") :
             /\ \E r \in 1..(i - 1) : IsCall(r, "remove_overlap")
             /\ Cardinality(Before(i, "ReplaceMaskUsingBooleanExpression")) = 12
             /\ \A j \in At("ReplaceMaskUsingBooleanExpression") : j < i
        /\ \A i \in At("RawExport") :
             /\ log[i].mask \in Tissues
             /\ log[i].path = ExportDir(p, f) \o log[i].mask \o ".raw"
             /\ log[i - 1] = [op |-> "ApplyBinarisationFilter"]
             /\ log[i - 2] = [op |-> "Activate", mask |-> log[i].mask]
             /\ \A j \in At("RawExport") : log[j].mask = log[i].mask => j = i
        /\ (todo # <<>> /\ Head(todo).op = "RawExport") => ExportDir(p, f) \in fs
        /\ \A s \in At("SaveAs") :
             /\ log[s].path = QcFolder(p, f) \o "sipFiles\\" \o ToString(p)
                                \o "_QC" \o ToString(stage) \o ".sip"
             /\ Cardinality(Before(s, "RawExport")) = Cardinality(Tissues)
             /\ s = Len(log)
        /\ Finished =>
             /\ Cardinality(At("SaveAs")) = 1
             /\ {log[i].mask : i \in At("RawExport")} = Tissues

C5_Witness ==
    /\ Ran("finalize_sip_file")
    /\ At("makedirs") # {}
    /\ Cardinality(At("RawExport")) = 11
    /\ log[Len(log)].op = "SaveAs"

----------------------------------------------------------------------------
(* generate_base_file *)

\* generate_base_file was called at g and found a T1
Found(g) == Generates(g) /\ ~T1Missing(g)

FinalCopy(g, name) ==
    ParticipantFolder(Pid(g), Loc(g)) \o "Binarized_masks\\final\\" \o name \o ".raw"

PlainCopy(g, name) ==
    ParticipantFolder(Pid(g), Loc(g)) \o "Binarized_masks\\" \o name \o ".raw"

\* The files the optional mask `name' was imported from
ImportedFrom(g, name) ==
    {log[i].path : i \in {j \in At("ImportBackgroundFromRawImage") :
                            /\ j > g
                            /\ log[j].path \in {FinalCopy(g, name),
                                                PlainCopy(g, name)}}}

WasImported(g, name) == ImportedFrom(g, name) # {}

BaseSip(g) ==
    ParticipantFolder(Pid(g), Loc(g)) \o "qualityCheck\\sipFiles\\"
    \o ToString(Pid(g)) \o "_base.sip"

SavesAfter(g) == {s \in At("SaveAs") : s > g}

(* C6: whenever generate_base_file finds a T1 it saves the document        *)
(* exactly once, to <participant_folder>qualityCheck\sipFiles\<id>_base    *)
(* .sip, after the T1 import, the 11 tissue imports,                       *)
(* colors_order_visibility("Sam") and any bone patching and reorganising,  *)
(* and before the final message box.                                       *)
C6_SavedOnce ==
    \A g \in 1..Len(log) :
      Found(g) =>
        /\ Cardinality(SavesAfter(g)) <= 1
        /\ \A s \in SavesAfter(g) :
             /\ log[s].path = BaseSip(g)
             /\ \E i \in (g + 1)..(s - 1) : log[i].op = "ImportRawImage"
             /\ \A m \in Tissues :
                  \E i \in (g + 1)..(s - 1) :
                    log[i] = [op |-> "ImportBackgroundFromRawImage",
                              path |-> ParticipantFolder(Pid(g), Loc(g))
                                       \o "Binarized_masks\\idv_mask\\" \o m
                                       \o ".raw"]
             /\ \E c \in (g + 1)..(s - 1) :
                  /\ IsCall(c, "colors_order_visibility")
                  /\ log[c].args.color_palette = "Sam"
                  /\ Cardinality({j \in (c + 1)..(s - 1) :
                                    log[j].op = "SetVisible"})
                       = Cardinality(Tissues)
             /\ \A j \in (s + 1)..Len(log) :
                  j = s + 1 /\ log[j].op = "ShowMessage"
             /\ todo = <<>> \/ (Len(todo) = 1 /\ Head(todo).op = "ShowMessage"
                                /\ Len(log) = s)
        /\ Finished =>
             /\ Cardinality(SavesAfter(g)) = 1
             /\ log[Len(log)].op = "ShowMessage"

C6_Witness ==
    /\ Finished
    /\ \E g \in 1..Len(log) :
         /\ Found(g)
         /\ WasImported(g, "bone") /\ WasImported(g, "uniform")
         /\ \E b \in 1..Len(log) : IsCall(b, "bone_patching")
         /\ Cardinality(SavesAfter(g)) = 1
         /\ BaseSip(g) \in fs

C7_Expected(g) ==
    IF ~WasImported(g, "uniform") /\ ~WasImported(g, "bone")
    THEN "Could not find files for either uniform or bone masks."
    ELSE IF WasImported(g, "bone") /\ ~WasImported(g, "uniform")
    THEN "Bone imported but uniform could not be located."
    ELSE IF WasImported(g, "uniform") /\ ~WasImported(g, "bone")
    THEN "Uniform imported but bone could not be located."
    ELSE ToString(Pid(g))
         \o "_base.sip successfully generated. Uniform and pre-patched bone included."

(* C7: the final message of generate_base_file (T1 found) tells which of   *)
(* the optional masks were imported, and it is the only message of the run.*)
C7_FinalMessage ==
    \A g \in 1..Len(log) :
      (Found(g) /\ Finished) =>
        /\ Cardinality({i \in At("ShowMessage") : i > g}) = 1
        /\ log[Len(log)] = [op |-> "ShowMessage", msg |-> C7_Expected(g)]

C7_Witness ==
    /\ Finished
    /\ \E g \in 1..Len(log) :
         /\ Found(g)
         /\ WasImported(g, "bone") /\ ~WasImported(g, "uniform")
         /\ log[Len(log)].msg = "Bone imported but uniform could not be located."

(* C8: stop_start_visual_checks saves the current document as              *)
(* <current_participant>_base.sip, then closes it, and only then starts    *)
(* generate_base_file for the next participant; when the next participant  *)
(* has no T1, only the "No RAW T1 scan found." message follows the close.  *)
C8_SaveCloseGenerate ==
    (log # <<>> /\ IsCall(1, "stop_start_visual_checks")) =>
      LET cur == log[1].args.current_participant
          next == log[1].args.next_participant
          f == log[1].args.folder_location
      IN
        /\ Len(log) >= 2 =>
             log[2] = [op |-> "SaveAs",
                       path |-> QcFolder(cur, f) \o "sipFiles\\"
                                \o ToString(cur) \o "_base.sip"]
        /\ Len(log) >= 3 => log[3] = [op |-> "Close"]
        /\ Len(log) >= 4 =>
             /\ Generates(4) /\ Pid(4) = next /\ Loc(4) = f
        /\ \A i \in 1..Len(log) : Generates(i) => i = 4
        /\ \A i \in At("Close") : i = 3
        /\ (Finished /\ T1Missing(4)) =>
             /\ Len(log) = 5 /\ log[5] = NoT1Message
             /\ ~open
        /\ Finished => Len(log) >= 5

C8_Witness ==
    /\ Ran("stop_start_visual_checks")
    /\ Len(log) = 5
    /\ log[2].op = "SaveAs" /\ log[3].op = "Close" /\ log[5] = NoT1Message

C8_WitnessFound ==
    /\ Ran("stop_start_visual_checks")
    /\ Found(4)
    /\ Cardinality(At("SaveAs")) = 2

(* C9: generate_base_file imports FS6.0_sub-<id>_ses01_T1_rs.RAW when it   *)
(* exists, T1.RAW only when the first name does not exist, and makes       *)
(* exactly one ImportRawImage call when at least one of the two exists.    *)
C9_T1Selection ==
    \A g \in 1..Len(log) :
      Generates(g) =>
        LET imports == {i \in At("ImportRawImage") : i > g}
            first == T1First(Pid(g), Loc(g))
            second == T1Second(Pid(g), Loc(g))
        IN  /\ Cardinality(imports) <= 1
            /\ \A i \in imports :
                 /\ first \in fs => log[i].path = first
                 /\ first \notin fs => (log[i].path = second /\ second \in fs)
            /\ (Len(log) > g /\ ~T1Missing(g)) => Cardinality(imports) = 1
            /\ T1Missing(g) => imports = {}

C9_Witness ==
    /\ Finished
    /\ \E g \in 1..Len(log) :
         /\ Generates(g)
         /\ T1First(Pid(g), Loc(g)) \in fs /\ T1Second(Pid(g), Loc(g)) \in fs
         /\ \E i \in At("ImportRawImage") :
              log[i].path = T1First(Pid(g), Loc(g))

C9_WitnessSecond ==
    /\ Finished
    /\ \E g \in 1..Len(log) :
         /\ Generates(g)
         /\ T1First(Pid(g), Loc(g)) \notin fs
         /\ \E i \in At("ImportRawImage") :
              log[i].path = T1Second(Pid(g), Loc(g))

Dividers == {"---", "----"}

(* C10: in generate_base_file (T1 found) bone and uniform are each         *)
(* imported iff <name>.raw exists in Binarized_masks\final\ or in          *)
(* Binarized_masks\, from final\ when both exist; bone_patching runs iff   *)
(* bone was imported, after the rename of "bone_old" to "bone"; the        *)
(* dividers "---" and "----" are created and the bone and uniform masks    *)
(* re-ordered iff both were imported.                                      *)
C10_OptionalMasks ==
    \A g \in 1..Len(log) :
      (Found(g) /\ Finished) =>
        LET patchings == {b \in (g + 1)..Len(log) : IsCall(b, "bone_patching")}
            both == WasImported(g, "bone") /\ WasImported(g, "uniform")
            created == {i \in At("CreateMask") : i > g}
            moves == {i \in At("MoveMaskTo") : i > g}
        IN
          /\ \A name \in {"bone", "uniform"} :
               ImportedFrom(g, name) =
                 IF FinalCopy(g, name) \in fs THEN {FinalCopy(g, name)}
                 ELSE IF PlainCopy(g, name) \in fs THEN {PlainCopy(g, name)}
                 ELSE {}
          /\ Cardinality(patchings) = IF WasImported(g, "bone") THEN 1 ELSE 0
          /\ \A b \in patchings :
               log[b - 1] = [op |-> "SetMaskName", from |-> "bone_old",
                             to |-> "bone"]
          /\ {log[i].mask : i \in created} = IF both THEN Dividers ELSE {}
          /\ Cardinality(created) = IF both THEN 2 ELSE 0
          /\ Cardinality(moves) =
               Cardinality(Tissues) + (IF both THEN 8 ELSE 0)
          /\ both => \A d \in Dividers : d \in Range(masks)

C10_Witness ==
    /\ Finished
    /\ \E g \in 1..Len(log) :
         /\ Found(g)
         /\ FinalCopy(g, "bone") \in fs /\ PlainCopy(g, "bone") \in fs
         /\ ImportedFrom(g, "bone") = {FinalCopy(g, "bone")}
         /\ WasImported(g, "uniform")
         /\ "---" \in Range(masks) /\ "----" \in Range(masks)
         /\ "patched_bone" \in Range(masks)

----------------------------------------------------------------------------
(* bone_patching *)

PatchingMasks ==
    {"unpatched_bone_regions", "patched_bone_regions_raw",
     "patched_bone_regions_corrected", "patched_bone"}

\* bone_patching was called and has just made its last call
PatchingReturned ==
    /\ \E b \in 1..Len(log) : IsCall(b, "bone_patching")
    /\ log[Len(log)].op = "ReplaceMaskUsingBooleanExpression"
    /\ log[Len(log)].bop = "OR"

(* C11: when bone_patching returns, bone, wm, gm and csf hold the voxels   *)
(* they held before the call, patched_bone is the union of bone and        *)
(* patched_bone_regions_corrected, and the document has exactly four new   *)
(* masks, named unpatched_bone_regions, patched_bone_regions_raw,          *)
(* patched_bone_regions_corrected and patched_bone, whatever the host's    *)
(* erode, dilate, close and island-removal filters do.                     *)
C11_PatchingFrame ==
    PatchingReturned =>
        /\ \A m \in {"bone", "wm", "gm", "csf"} : vox[m] = pre.vox[m]
        /\ vox["patched_bone"] =
               vox["bone"] \cup vox["patched_bone_regions_corrected"]
        /\ pre.vox["bone"] \subseteq vox["patched_bone"]
        /\ Range(masks) \ Range(pre.masks) = PatchingMasks
        /\ Range(pre.masks) \subseteq Range(masks)
        /\ Len(masks) = Len(pre.masks) + 4

\* A run on a non-empty bone mask in which the filters changed the masks they
\* worked on: the eroded copy lost voxels of bone and the patches are not empty
C11_Witness ==
    /\ Ran("bone_patching")
    /\ PatchingReturned
    /\ pre.vox["bone"] # {}
    /\ vox["unpatched_bone_regions"] # pre.vox["bone"]
    /\ vox["patched_bone_regions_corrected"] # {}

=============================================================================
